---------------------------- MODULE Spec2Model ----------------------------
(***************************************************************************)
(* Model of the LimaCharlie backend of sigmac                              *)
(* (tools/sigma/backends/limacharlie.py).                                  *)
(*                                                                         *)
(* Python values are tagged records:                                       *)
(*   None            [t |-> "none"]                                        *)
(*   str             [t |-> "str", s |-> <<characters>>]                   *)
(*   int             [t |-> "int", n |-> i]                                *)
(*   list            [t |-> "list", items |-> <<values>>]                  *)
(*   dict (a node)   [t |-> "dict", op |-> ..., path |-> ..., ...] with    *)
(*                   exactly the keys the dictionary holds ("cs" stands    *)
(*                   for the key "case sensitive")                         *)
(*   a raised exception  [t |-> "raise", e |-> kind]                       *)
(*   a YAML text     [t |-> "yaml", doc |-> the value it serialises]       *)
(* Field names, target paths and operator names are atoms (TLA+ strings);  *)
(* rule values are sequences of characters, because the value pattern      *)
(* compiler inspects and rewrites them character by character.             *)
(***************************************************************************)
EXTENDS Integers, Sequences, FiniteSets, TLC

VARIABLES
    self,     \* the backend instance's fields set by generate (lines 189-198)
    pc,       \* "idle" | "done" : position of the sequential caller
    rule,     \* the sigmaparser handed to the running / last call
    root,     \* generateNode(parsed.parsedSearch), line 256, of the last call
    ret,      \* what the last call returned or raised
    calls,    \* the concurrent calls: per call its rule, position and locals
    val,      \* the argument of the last _valuePatternToLcOp call
    res       \* its result

vars == <<self, pc, rule, root, ret, calls, val, res>>

---------------------------------------------------------------------------
(* Bounds of the model                                                     *)

MaxLen == 3       \* longest rule value handed to the value pattern compiler
MaxInt == 11      \* integers -MaxInt..MaxInt are handed to it
MaxNodes == 3     \* largest expression tree, counted in nodes

---------------------------------------------------------------------------
(* Python values                                                           *)

None == [t |-> "none"]
PyStr(s) == [t |-> "str", s |-> s]
PyInt(n) == [t |-> "int", n |-> n]
Raise(e) == [t |-> "raise", e |-> e]

IsNone(v) == v.t = "none"
IsStr(v) == v.t = "str"
IsDict(v) == v.t = "dict"
IsRaise(v) == v.t = "raise"

\* d[k] = v on a dictionary: the key is added or overwritten.
DictSet(d, k, v) == [x \in DOMAIN d \cup {k} |-> IF x = k THEN v ELSE d[x]]

\* d.update(e)
DictUpdate(d, e) == [x \in DOMAIN d \cup DOMAIN e |-> IF x \in DOMAIN e THEN e[x] ELSE d[x]]

Digits == <<"0", "1", "2", "3", "4", "5", "6", "7", "8", "9">>

RECURSIVE NatToStr(_)
NatToStr(n) == IF n < 10 THEN <<Digits[n + 1]>>
               ELSE NatToStr(n \div 10) \o <<Digits[(n % 10) + 1]>>

\* str(val): the decimal digits of an int, with a sign when negative; "None";
\* the text itself for a str; for any other object its repr, kept opaque.
str(v) == IF v.t = "int"
          THEN (IF v.n < 0 THEN <<"-">> \o NatToStr(-v.n) ELSE NatToStr(v.n))
          ELSE IF v.t = "none" THEN <<"N", "o", "n", "e">>
          ELSE IF v.t = "str" THEN v.s
          ELSE <<"<repr>">>

---------------------------------------------------------------------------
(* _valuePatternToLcOp                                                     *)

\* "*" in val[1:-1]
HasInnerStar(s) == \E i \in 2..(Len(s) - 1) : s[i] = "*"

startswith(s, c) == Len(s) > 0 /\ s[1] = c
endswith(s, c) == Len(s) > 0 /\ s[Len(s)] = c

\* re.sub('([".^$]|\\\\(?![*?]))', '\\\\\g<1>', val): a backslash is put before
\* each of " . ^ $ and before each backslash not followed by * or ?.
RECURSIVE EscapeFrom(_, _)
EscapeFrom(s, i) ==
    IF i > Len(s) THEN <<>>
    ELSE LET c == s[i]
             meta == c \in {"\"", ".", "^", "$"}
             lone == c = "\\" /\ ~(i < Len(s) /\ s[i + 1] \in {"*", "?"})
         IN  (IF meta \/ lone THEN <<"\\", c>> ELSE <<c>>) \o EscapeFrom(s, i + 1)

\* re.sub(<one character>, repl, val)
RECURSIVE ReplaceChar(_, _, _)
ReplaceChar(s, c, repl) ==
    IF s = <<>> THEN <<>>
    ELSE (IF Head(s) = c THEN repl ELSE <<Head(s)>>) \o ReplaceChar(Tail(s), c, repl)

WildcardToRegex(s) ==
    ReplaceChar(ReplaceChar(EscapeFrom(s, 1), "*", <<".", "*">>), "?", <<".">>)

\* _valuePatternToLcOp with the trailing '*' looked at before the pair of a leading
\* and a trailing one.
valuePatternToLcOpSuffixFirst(isAllStringValues, v) ==
    IF ~IsStr(v)
    THEN [op |-> "is",
          val |-> IF isAllStringValues THEN PyStr(str(v)) ELSE v]
    ELSE IF HasInnerStar(v.s)
    THEN [op |-> "matches", val |-> PyStr(WildcardToRegex(v.s))]
    ELSE IF endswith(v.s, "*")
    THEN [op |-> "starts with", val |-> PyStr(SubSeq(v.s, 1, Len(v.s) - 1))]
    ELSE IF endswith(v.s, "*") /\ startswith(v.s, "*")
    THEN [op |-> "contains", val |-> PyStr(SubSeq(v.s, 2, Len(v.s) - 1))]
    ELSE IF startswith(v.s, "*")
    THEN [op |-> "ends with", val |-> PyStr(SubSeq(v.s, 2, Len(v.s)))]
    ELSE [op |-> "is", val |-> v]

\* The returned pair (op, newVal).
valuePatternToLcOp(isAllStringValues, v) ==
    IF ~IsStr(v)
    THEN [op |-> "is",
          val |-> IF isAllStringValues THEN PyStr(str(v)) ELSE v]
    ELSE IF HasInnerStar(v.s)
    THEN [op |-> "matches", val |-> PyStr(WildcardToRegex(v.s))]
    ELSE IF endswith(v.s, "*") /\ startswith(v.s, "*")
    THEN [op |-> "contains", val |-> PyStr(SubSeq(v.s, 2, Len(v.s) - 1))]
    ELSE IF endswith(v.s, "*")
    THEN [op |-> "starts with", val |-> PyStr(SubSeq(v.s, 1, Len(v.s) - 1))]
    ELSE IF startswith(v.s, "*")
    THEN [op |-> "ends with", val |-> PyStr(SubSeq(v.s, 2, Len(v.s)))]
    ELSE [op |-> "is", val |-> v]

---------------------------------------------------------------------------
(* The mapping table                                                       *)

\* _windowsEventLogFieldName
windowsEventLogFieldName(fieldName) ==
    IF "EventID" = fieldName THEN "Event/System/EventID"
    ELSE "Event/EventData/" \o fieldName

Path(p) == [t |-> "path", p |-> p]
Callable == [kind |-> "callable"]
Table(m) == [kind |-> "dict", map |-> m]

\* SigmaLCConfig
SigmaLCConfig(top, pre, fm, allStr, kw) ==
    [topLevelParams |-> top, preConditions |-> pre, fieldMappings |-> fm,
     isAllStringValues |-> allStr, isKeywordsSupported |-> kw]

ProcessEvents == [events |-> <<"NEW_PROCESS", "EXISTING_PROCESS">>]
WelLog == ("target" :> "log") @@ ("log type" :> "wel")

LinuxConfig ==
    SigmaLCConfig(ProcessEvents,
                  [t |-> "dict", op |-> "is linux"],
                  Table(("keywords" :> Path("event/COMMAND_LINE"))
                        @@ ("exe" :> Path("event/FILE_PATH"))
                        @@ ("type" :> None)),
                  FALSE, TRUE)

allFieldMappings ==
    ("windows/process_creation/" :>
        SigmaLCConfig(ProcessEvents,
                      [t |-> "dict", op |-> "is windows"],
                      Table(("CommandLine" :> Path("event/COMMAND_LINE"))
                            @@ ("Image" :> Path("event/FILE_PATH"))
                            @@ ("ParentImage" :> Path("event/PARENT/FILE_PATH"))
                            @@ ("ParentCommandLine" :> Path("event/PARENT/COMMAND_LINE"))
                            @@ ("User" :> Path("event/USER_NAME"))
                            @@ ("OriginalFileName" :> None)
                            @@ ("NewProcessName" :> Path("event/FILE_PATH"))
                            @@ ("ProcessCommandLine" :> Path("event/COMMAND_LINE"))
                            @@ ("Command" :> Path("event/COMMAND_LINE"))),
                      FALSE, FALSE))
    @@ ("windows//" :> SigmaLCConfig(WelLog, None, Callable, TRUE, FALSE))
    @@ ("windows_defender//" :> SigmaLCConfig(WelLog, None, Callable, TRUE, FALSE))
    @@ ("dns//" :>
        SigmaLCConfig([event |-> "DNS_REQUEST"], None,
                      Table(("query" :> Path("event/DOMAIN_NAME"))),
                      FALSE, FALSE))
    @@ ("linux//" :> LinuxConfig)
    @@ ("unix//" :> LinuxConfig)
    @@ ("netflow//" :>
        SigmaLCConfig([event |-> "NETWORK_CONNECTIONS"], None,
                      Table(("destination.port" :>
                                Path("event/NETWORK_ACTIVITY/DESTINATION/PORT"))
                            @@ ("source.port" :>
                                Path("event/NETWORK_ACTIVITY/SOURCE/PORT"))),
                      FALSE, TRUE))

---------------------------------------------------------------------------
(* The node translator.  An expression tree node is                        *)
(*   [k |-> "AND", items |-> <<nodes>>]    ConditionAND                    *)
(*   [k |-> "OR",  items |-> <<nodes>>]    ConditionOR                     *)
(*   [k |-> "NOT", item |-> node]          ConditionNOT                    *)
(*   [k |-> "SUB", items |-> node]         NodeSubexpression               *)
(*   [k |-> "MAP", field |-> f, value |-> v]   a (fieldname, value) tuple  *)
(*   [k |-> "VAL", v |-> v]                a bare str or int               *)
(* Typed modifiers (SigmaTypeModifier) are not among the modelled values.  *)

\* The first exception in a list of results, if any: a comprehension stops at
\* the first element whose translation raises.
FirstRaise(seq) ==
    LET idx == {i \in 1..Len(seq) : IsRaise(seq[i])}
    IN  IF idx = {} THEN None
        ELSE seq[CHOOSE i \in idx : \A j \in idx : i <= j]

\* [g for g in generated if g is not None]
RECURSIVE NotNone(_)
NotNone(seq) ==
    IF seq = <<>> THEN <<>>
    ELSE (IF IsNone(Head(seq)) THEN <<>> ELSE <<Head(seq)>>) \o NotNone(Tail(seq))

\* The match node built for one value at lines 341-346 and 351-356.
MatchNode(slf, path, v) ==
    LET c == valuePatternToLcOp(slf.isAllStringValues, v)
    IN  [t |-> "dict", op |-> c.op, path |-> path, value |-> c.val, cs |-> FALSE]

\* The match node built for one keyword at lines 292-297.
KeywordNode(slf, path, v) ==
    LET c == valuePatternToLcOp(slf.isAllStringValues, v)
    IN  [t |-> "dict", op |-> c.op, path |-> path, value |-> c.val]

\* self._fieldMappingInEffect["keywords"], line 295
KeywordsPath(slf) ==
    LET fm == slf.fieldMappingInEffect
    IN  IF fm.kind # "dict" THEN Raise("TypeError")
        ELSE IF "keywords" \notin DOMAIN fm.map THEN Raise("KeyError")
        ELSE fm.map["keywords"]

\* Lines 326-332: the field name through the mapping in effect.
ResolveField(slf, fieldname) ==
    LET fm == slf.fieldMappingInEffect
    IN  IF fm.kind = "callable" THEN Path(windowsEventLogFieldName(fieldname))
        ELSE IF fm.kind = "dict" /\ fieldname \in DOMAIN fm.map THEN fm.map[fieldname]
        ELSE Raise("UnsupportedField")

generateMapItemNode(slf, node) ==
    LET fieldname == ResolveField(slf, node.field)
        value == node.value
    IN  IF IsRaise(fieldname) THEN fieldname
        ELSE IF IsNone(fieldname) THEN None
        ELSE IF value.t \in {"int", "str"} THEN MatchNode(slf, fieldname.p, value)
        ELSE IF value.t = "list"
        THEN LET subOps == [i \in 1..Len(value.items) |->
                               MatchNode(slf, fieldname.p, value.items[i])]
             IN  IF 1 = Len(subOps) THEN subOps[1]
                 ELSE [t |-> "dict", op |-> "or", rules |-> subOps]
        ELSE IF IsNone(value)
        THEN [t |-> "dict", op |-> "exists", not |-> TRUE, path |-> fieldname.p]
        ELSE Raise("UnsupportedValueType")

generateValueNode(node) == node.v

RECURSIVE generateNode(_, _)
RECURSIVE generateANDNode(_, _)
RECURSIVE generateORNode(_, _)
RECURSIVE generateNOTNode(_, _)
RECURSIVE generateSubexpressionNode(_, _)

\* generateANDNode without the unwrapping of a single surviving child.
generateANDNodeNoCollapse(slf, node) ==
    LET generated == [i \in 1..Len(node.items) |-> generateNode(slf, node.items[i])]
        filtered == NotNone(generated)
    IN  IF ~IsNone(FirstRaise(generated)) THEN FirstRaise(generated)
        ELSE IF filtered = <<>> THEN None
        ELSE [t |-> "dict", op |-> "and", rules |-> filtered]

\* generateORNode without the check that keywords are supported.
generateORNodeUnchecked(slf, node) ==
    LET generated == [i \in 1..Len(node.items) |-> generateNode(slf, node.items[i])]
        filtered == NotNone(generated)
        path == KeywordsPath(slf)
        mappedFiltered == [i \in 1..Len(filtered) |->
                              KeywordNode(slf, path.p, filtered[i])]
    IN  IF ~IsNone(FirstRaise(generated)) THEN FirstRaise(generated)
        ELSE IF filtered = <<>> THEN None
        ELSE IF IsStr(filtered[1])
        THEN IF IsRaise(path) THEN path
             ELSE IF 1 = Len(mappedFiltered) THEN mappedFiltered[1]
             ELSE [t |-> "dict", op |-> "or", rules |-> mappedFiltered]
        ELSE IF 1 = Len(filtered) THEN filtered[1]
        ELSE [t |-> "dict", op |-> "or", rules |-> filtered]

generateANDNode(slf, node) ==
    LET generated == [i \in 1..Len(node.items) |-> generateNode(slf, node.items[i])]
        filtered == NotNone(generated)
    IN  IF ~IsNone(FirstRaise(generated)) THEN FirstRaise(generated)
        ELSE IF filtered = <<>> THEN None
        ELSE IF 1 = Len(filtered) THEN filtered[1]
        ELSE [t |-> "dict", op |-> "and", rules |-> filtered]

generateORNode(slf, node) ==
    LET generated == [i \in 1..Len(node.items) |-> generateNode(slf, node.items[i])]
        filtered == NotNone(generated)
        path == KeywordsPath(slf)
        mappedFiltered == [i \in 1..Len(filtered) |->
                              KeywordNode(slf, path.p, filtered[i])]
    IN  IF ~IsNone(FirstRaise(generated)) THEN FirstRaise(generated)
        ELSE IF filtered = <<>> THEN None
        ELSE IF IsStr(filtered[1])
        THEN IF ~slf.isKeywordsSupported THEN Raise("UnsupportedKeywordSearch")
             ELSE IF IsRaise(path) THEN path
             ELSE IF 1 = Len(mappedFiltered) THEN mappedFiltered[1]
             ELSE [t |-> "dict", op |-> "or", rules |-> mappedFiltered]
        ELSE IF 1 = Len(filtered) THEN filtered[1]
        ELSE [t |-> "dict", op |-> "or", rules |-> filtered]

generateNOTNode(slf, node) ==
    LET generated == generateNode(slf, node.item)
    IN  IF IsRaise(generated) THEN generated
        ELSE IF IsNone(generated) THEN None
        ELSE IF ~IsDict(generated) THEN Raise("UnsupportedNegation")
        ELSE DictSet(generated, "not", TRUE)

generateSubexpressionNode(slf, node) == generateNode(slf, node.items)

\* BaseBackend.generateNode: dispatch on the node's type.
generateNode(slf, node) ==
    CASE node.k = "AND" -> generateANDNode(slf, node)
      [] node.k = "OR" -> generateORNode(slf, node)
      [] node.k = "NOT" -> generateNOTNode(slf, node)
      [] node.k = "SUB" -> generateSubexpressionNode(slf, node)
      [] node.k = "MAP" -> generateMapItemNode(slf, node)
      [] node.k = "VAL" -> generateValueNode(node)

---------------------------------------------------------------------------
(* generateQuery and generate.  A rule (the sigmaparser) is                *)
(*   [logsource |-> a function on the log-source fields the rule declares, *)
(*    parsedSearch |-> the expression tree,                                *)
(*    title |-> ...,                                                       *)
(*    meta |-> a function on the metadata keys the rule holds]             *)

\* yaml.safe_dump of a node and yaml.safe_load of the text: the text carries the
\* value, so that a str, an int, None or a dict is loaded back as what was dumped.
yaml_safe_dump(v) == [t |-> "yaml", doc |-> v]
yaml_safe_load(y) == y.doc

\* The instance fields before the first call.  generate assigns all four before
\* anything reads them.
Unset ==
    [fieldMappingInEffect |-> [kind |-> "unset"], preCondition |-> None,
     isAllStringValues |-> FALSE, isKeywordsSupported |-> FALSE]

\* Lines 256-265.
WrapPreCondition(slf, result) ==
    IF ~IsNone(slf.preCondition)
    THEN [t |-> "dict", op |-> "and", rules |-> <<slf.preCondition, result>>]
    ELSE result

generateQuery(slf, parsedSearch) ==
    LET result == generateNode(slf, parsedSearch)
    IN  IF IsRaise(result) THEN result
        ELSE yaml_safe_dump(WrapPreCondition(slf, result))

\* Lines 162-183: the log source fields, a missing one read as "".
LogSourceField(ls, k) == IF k \in DOMAIN ls THEN ls[k] ELSE ""

\* The key with the service the rule declares (the lines 171-174, commented out).
mappingKeyWithService(ls) ==
    LET category == LogSourceField(ls, "category")
        product == LogSourceField(ls, "product")
        service == LogSourceField(ls, "service")
    IN  product \o "/" \o category \o "/" \o service

mappingKey(ls) ==
    LET category == LogSourceField(ls, "category")
        product == LogSourceField(ls, "product")
        service == ""
    IN  product \o "/" \o category \o "/" \o service

\* Lines 189-198.
SetContext(slf, config) ==
    [fieldMappingInEffect |-> config.fieldMappings,
     preCondition |-> config.preConditions,
     isAllStringValues |-> config.isAllStringValues,
     isKeywordsSupported |-> config.isKeywordsSupported]

MetadataKeys == <<"tags", "description", "references", "level", "author">>

\* Lines 230-243: the metadata dictionary as the list of its items in insertion
\* order; keys is the list of keys still to be looked at.
RECURSIVE MetadataItems(_, _)
MetadataItems(ruleConfig, keys) ==
    IF keys = <<>> THEN <<>>
    ELSE LET k == Head(keys)
         IN  (IF k \in DOMAIN ruleConfig /\ ~IsNone(ruleConfig[k])
              THEN <<[key |-> k, value |-> ruleConfig[k]]>> ELSE <<>>)
             \o MetadataItems(ruleConfig, Tail(keys))

\* Lines 224-243.
respondComponents(sigmaparser) ==
    LET items == MetadataItems(sigmaparser.meta, MetadataKeys)
        report == [action |-> "report", name |-> sigmaparser.title]
    IN  <<IF items = <<>> THEN report ELSE DictSet(report, "metadata", items)>>

\* yaml.safe_dump writes the keys of a mapping in sorted order.
SortedKeys == <<"author", "description", "level", "references", "tags">>

RECURSIVE SortItems(_, _)
SortItems(items, keys) ==
    IF keys = <<>> THEN <<>>
    ELSE SelectSeq(items, LAMBDA it : it.key = Head(keys)) \o SortItems(items, Tail(keys))

\* Lines 246-249: the document as serialised.
DumpDocument(detect, respond) ==
    LET action == respond[1]
        dumped == IF "metadata" \in DOMAIN action
                  THEN DictSet(action, "metadata", SortItems(action.metadata, SortedKeys))
                  ELSE action
    IN  [t |-> "yaml", doc |-> [detect |-> detect, respond |-> <<dumped>>]]

\* Lines 203-249: from the text the query generation returned to the rule.
Assemble(sigmaparser, topFilter, detectText) ==
    LET detectComponent == yaml_safe_load(detectText)
    IN  IF ~IsDict(detectComponent) THEN Raise("MalformedSelection")
        ELSE DumpDocument(DictUpdate(detectComponent, topFilter),
                          respondComponents(sigmaparser))

NotRun == [t |-> "notrun"]

\* generate: the fields it leaves on the instance, the translated root (line 256)
\* and what it returns or raises.
generate(slf, sigmaparser) ==
    LET key == mappingKey(sigmaparser.logsource)
    IN  IF key \notin DOMAIN allFieldMappings
        THEN [self |-> slf, root |-> NotRun, ret |-> Raise("UnsupportedLogSource")]
        ELSE LET config == allFieldMappings[key]
                 now == SetContext(slf, config)
                 query == generateQuery(now, sigmaparser.parsedSearch)
             IN  [self |-> now,
                  root |-> generateNode(now, sigmaparser.parsedSearch),
                  ret |-> IF IsRaise(query) THEN query
                          ELSE Assemble(sigmaparser, config.topLevelParams, query)]

---------------------------------------------------------------------------
(* Inputs                                                                  *)

AND(items) == [k |-> "AND", items |-> items]
OR(items) == [k |-> "OR", items |-> items]
NOT(item) == [k |-> "NOT", item |-> item]
SUB(items) == [k |-> "SUB", items |-> items]
MAP(field, value) == [k |-> "MAP", field |-> field, value |-> value]
VAL(v) == [k |-> "VAL", v |-> v]

Leaves ==
    { MAP("Image", PyStr(<<"c", "m", "d", ".", "e", "x", "e">>)),
      MAP("Image", None),
      MAP("OriginalFileName", PyStr(<<"x">>)),
      MAP("exe", PyStr(<<"s", "h", "*">>)),
      MAP("exe", [t |-> "list", items |-> <<PyStr(<<"*", "a">>), PyInt(5)>>]),
      MAP("type", PyStr(<<"x">>)),
      MAP("EventID", PyInt(4688)),
      VAL(PyStr(<<"f", "o", "o", "*">>)),
      VAL(PyStr(<<"*", "b", "a", "r">>)),
      VAL(PyInt(5)) }

RECURSIVE TreesOfSize(_)
RECURSIVE Forests(_, _)

\* The sequences of k trees that hold n nodes together.
Forests(k, n) ==
    IF k = 0 THEN (IF n = 0 THEN {<<>>} ELSE {})
    ELSE UNION { { <<tr>> \o f : tr \in TreesOfSize(m), f \in Forests(k - 1, n - m) }
                 : m \in 1..(n - (k - 1)) }

TreesOfSize(n) ==
    IF n = 1 THEN Leaves
    ELSE { NOT(tr) : tr \in TreesOfSize(n - 1) }
         \cup { SUB(tr) : tr \in TreesOfSize(n - 1) }
         \cup UNION { { AND(f) : f \in Forests(k, n - 1) } : k \in 1..(n - 1) }
         \cup UNION { { OR(f) : f \in Forests(k, n - 1) } : k \in 1..(n - 1) }

Trees == UNION { TreesOfSize(n) : n \in 1..MaxNodes }

\* A function on a subset of keys, one per choice of the keys present.
PartialFunctions(keys, values) == UNION { [d -> values] : d \in SUBSET keys }

\* The log sources of the table's dialects.
Dialects ==
    { [product |-> "windows", category |-> "process_creation"],
      [product |-> "windows"], [product |-> "windows_defender"],
      [product |-> "dns"], [product |-> "linux"], [product |-> "unix"],
      [product |-> "netflow"] }

LogSources ==
    { ls \in PartialFunctions({"product", "category", "service"},
                              {"", "windows", "windows_defender", "dns", "linux",
                               "netflow", "macos", "process_creation", "sysmon"}) :
        /\ ("product" \in DOMAIN ls =>
                ls["product"] \in {"", "windows", "windows_defender", "dns", "linux",
                                   "netflow", "macos"})
        /\ ("category" \in DOMAIN ls => ls["category"] \in {"", "process_creation", "dns"})
        /\ ("service" \in DOMAIN ls => ls["service"] \in {"", "sysmon"}) }

MetaValue(k) == PyStr(<<k>>)

Metas ==
    { m \in PartialFunctions({"tags", "description", "references", "level", "author"},
                             {"none", "value"}) : TRUE }

MetaOf(m) == [k \in DOMAIN m |-> IF m[k] = "none" THEN None ELSE MetaValue(k)]

Rule(ls, tree, meta) ==
    [logsource |-> ls, parsedSearch |-> tree, title |-> "T1", meta |-> meta]

NoMeta == [k \in {} |-> None]

\* Every tree under every dialect; every log source; every choice of metadata.
TreeRules == { Rule(ls, tr, NoMeta) : ls \in Dialects, tr \in Trees }
SourceRules == { Rule(ls, tr, NoMeta) : ls \in LogSources, tr \in TreesOfSize(1) }
MetaRules ==
    { Rule([product |-> "linux"], MAP("exe", PyStr(<<"s", "h", "*">>)), MetaOf(m)) :
        m \in Metas }

Rules == TreeRules \cup SourceRules \cup MetaRules

NoRule == Rule(NoMeta, VAL(None), NoMeta)

Alphabet == {"a", "*", "?", ".", "^", "\\"}

RECURSIVE StringsOfLen(_)
StringsOfLen(n) ==
    IF n = 0 THEN {<<>>}
    ELSE { Append(w, c) : w \in StringsOfLen(n - 1), c \in Alphabet }

\* The values of the wildcard compilation table, section 8.
TableValues ==
    { PyStr(<<"a", "b", "c", "*">>), PyStr(<<"*", "a", "b", "c">>),
      PyStr(<<"*", "a", "b", "c", "*">>), PyStr(<<"a", "*", "b">>),
      PyStr(<<"a", "b", "c">>), PyInt(5) }

Values ==
    { PyStr(w) : w \in UNION { StringsOfLen(n) : n \in 0..MaxLen } }
    \cup { PyInt(n) : n \in (-MaxInt)..MaxInt }
    \cup TableValues

---------------------------------------------------------------------------
(* Sequential use: one call of generate at a time.                         *)

Init ==
    /\ self = Unset
    /\ pc = "idle"
    /\ rule = NoRule
    /\ root = NotRun
    /\ ret = None
    /\ calls = <<>>
    /\ val = None
    /\ res = None

Generate ==
    /\ pc = "idle"
    /\ \E r \in Rules :
          LET g == generate(self, r)
          IN  /\ self' = g.self
              /\ rule' = r
              /\ root' = g.root
              /\ ret' = g.ret
    /\ pc' = "done"
    /\ UNCHANGED <<calls, val, res>>

\* The caller takes the result; the instance keeps its fields.
Return ==
    /\ pc = "done"
    /\ pc' = "idle"
    /\ rule' = NoRule
    /\ root' = NotRun
    /\ ret' = None
    /\ UNCHANGED <<self, calls, val, res>>

Next == Generate \/ Return

Spec == Init /\ [][Next]_vars

---------------------------------------------------------------------------
(* The value pattern compiler on its own: the instance has been set up by  *)
(* a call of generate for some dialect of the table.                       *)

InitPattern ==
    /\ self \in { SetContext(Unset, allFieldMappings[k]) : k \in DOMAIN allFieldMappings }
    /\ pc = "idle"
    /\ rule = NoRule
    /\ root = NotRun
    /\ ret = None
    /\ calls = <<>>
    /\ val = None
    /\ res = None

ValuePatternToLcOp ==
    /\ pc = "idle"
    /\ \E v \in Values :
          /\ val' = v
          /\ res' = valuePatternToLcOp(self.isAllStringValues, v)
    /\ pc' = "done"
    /\ UNCHANGED <<self, rule, root, ret, calls>>

ReturnValue ==
    /\ pc = "done"
    /\ pc' = "idle"
    /\ val' = None
    /\ res' = None
    /\ UNCHANGED <<self, rule, root, ret, calls>>

NextPattern == ValuePatternToLcOp \/ ReturnValue

SpecPattern == InitPattern /\ [][NextPattern]_vars

---------------------------------------------------------------------------
(* Properties of the value pattern compiler                                *)

\* What one character of a wildcard pattern becomes in the regular expression.
RegexPiece(s, i) ==
    LET c == s[i]
    IN  IF c = "*" THEN <<".", "*">>
        ELSE IF c = "?" THEN <<".">>
        ELSE IF c \in {"\"", ".", "^", "$"} THEN <<"\\", c>>
        ELSE IF c = "\\" /\ ~(i < Len(s) /\ s[i + 1] \in {"*", "?"}) THEN <<"\\", "\\">>
        ELSE <<c>>

RECURSIVE RegexOf(_, _)
RegexOf(s, i) == IF i > Len(s) THEN <<>> ELSE RegexPiece(s, i) \o RegexOf(s, i + 1)

\* '*' replaced by '.*' and '?' by '.', and nothing else.
RECURSIVE PlainRegexOf(_)
PlainRegexOf(s) ==
    IF s = <<>> THEN <<>>
    ELSE (IF Head(s) = "*" THEN <<".", "*">>
          ELSE IF Head(s) = "?" THEN <<".">> ELSE <<Head(s)>>) \o PlainRegexOf(Tail(s))

DigitValue(c) == CHOOSE d \in 0..9 : Digits[d + 1] = c

RECURSIVE DecimalValue(_)
DecimalValue(ds) ==
    IF ds = <<>> THEN 0
    ELSE 10 * DecimalValue(SubSeq(ds, 1, Len(ds) - 1)) + DigitValue(ds[Len(ds)])

\* w is the decimal numeral of n.
IsNumeralOf(w, n) ==
    LET ds == IF n < 0 THEN Tail(w) ELSE w
    IN  /\ Len(ds) >= 1
        /\ (n < 0 => Head(w) = "-")
        /\ \A i \in 1..Len(ds) : \E d \in 1..10 : Digits[d] = ds[i]
        /\ (Len(ds) > 1 => ds[1] # "0")
        /\ DecimalValue(ds) = (IF n < 0 THEN -n ELSE n)

\* The ordered classification, with the regular expression given by regex.
Classified(v, allStr, r, regex(_)) ==
    IF v.t = "int"
    THEN /\ r.op = "is"
         /\ IF allStr THEN r.val.t = "str" /\ IsNumeralOf(r.val.s, v.n) ELSE r.val = v
    ELSE LET s == v.s
             n == Len(s)
             first == n >= 1 /\ s[1] = "*"
             last == n >= 1 /\ s[n] = "*"
         IN  IF \E i \in 1..n : 1 < i /\ i < n /\ s[i] = "*"
             THEN r = [op |-> "matches", val |-> PyStr(regex(s))]
             ELSE IF first /\ last
             THEN r = [op |-> "contains",
                       val |-> PyStr([i \in 1..(IF n >= 2 THEN n - 2 ELSE 0) |-> s[i + 1]])]
             ELSE IF last
             THEN r = [op |-> "starts with", val |-> PyStr([i \in 1..(n - 1) |-> s[i]])]
             ELSE IF first
             THEN r = [op |-> "ends with", val |-> PyStr([i \in 1..(n - 1) |-> s[i + 1]])]
             ELSE r = [op |-> "is", val |-> v]

\* The wildcard compilation table of section 8.
TableHolds ==
    /\ (val = PyStr(<<"a", "b", "c", "*">>)
            => res = [op |-> "starts with", val |-> PyStr(<<"a", "b", "c">>)])
    /\ (val = PyStr(<<"*", "a", "b", "c">>)
            => res = [op |-> "ends with", val |-> PyStr(<<"a", "b", "c">>)])
    /\ (val = PyStr(<<"*", "a", "b", "c", "*">>)
            => res = [op |-> "contains", val |-> PyStr(<<"a", "b", "c">>)])
    /\ (val = PyStr(<<"a", "*", "b">>)
            => res = [op |-> "matches", val |-> PyStr(<<"a", ".", "*", "b">>)])
    /\ (val = PyStr(<<"a", "b", "c">>) => res = [op |-> "is", val |-> PyStr(<<"a", "b", "c">>)])
    /\ (val = PyInt(5) /\ self.isAllStringValues
            => res = [op |-> "is", val |-> PyStr(<<"5">>)])

\* C7 as stated: a value is classified by the first matching rule of the ordered
\* list, and a string with an inner '*' becomes ("matches", the pattern with '*'
\* replaced by '.*' and '?' by '.').
C7_Original ==
    pc = "done" =>
        Classified(val, self.isAllStringValues, res, LAMBDA s : PlainRegexOf(s)) /\ TableHolds

\* C7 amended: the same ordered classification, where the pattern of a string with
\* an inner '*' first gets a backslash before each of " . ^ $ and before each
\* backslash not followed by * or ?, and then has '*' replaced by '.*' and '?' by '.'.
C7_Classification ==
    pc = "done" =>
        Classified(val, self.isAllStringValues, res, LAMBDA s : RegexOf(s, 1)) /\ TableHolds

\* A pattern with an inner '*' and a metacharacter has been compiled.
C7_Witness ==
    /\ pc = "done"
    /\ val = PyStr(<<".", "*", "a">>)
    /\ res = [op |-> "matches", val |-> PyStr(<<"\\", ".", ".", "*", "a">>)]

---------------------------------------------------------------------------
(* Properties of the log source lookup                                     *)

TableKeys ==
    {"windows/process_creation/", "windows//", "windows_defender//", "dns//",
     "linux//", "unix//", "netflow//"}

Declared(ls, k) == IF k \in DOMAIN ls THEN ls[k] ELSE ""

\* A call has run and produced no document.
NoDocument == IsRaise(ret) /\ root = NotRun

\* C4 as stated: the key is "{product}/{category}/{service}" of the rule's log
\* source, and every rule whose key is not in the table fails with
\* UnsupportedLogSource and produces no document.
C4_Original ==
    pc = "done" =>
        LET ls == rule.logsource
            key == Declared(ls, "product") \o "/" \o Declared(ls, "category")
                       \o "/" \o Declared(ls, "service")
        IN  IF key \in TableKeys
            THEN ret # Raise("UnsupportedLogSource")
                 /\ self = SetContext(Unset, allFieldMappings[key])
            ELSE ret = Raise("UnsupportedLogSource") /\ NoDocument

\* C4 amended: the key is "{product}/{category}/" of the rule's log source (an
\* absent field counting as the empty string, the service the rule declares being
\* ignored); a key of the table selects that entry's context, and every other key
\* fails with UnsupportedLogSource and produces no document.
C4_Lookup ==
    pc = "done" =>
        LET ls == rule.logsource
            key == Declared(ls, "product") \o "/" \o Declared(ls, "category") \o "/"
        IN  IF key \in TableKeys
            THEN ret # Raise("UnsupportedLogSource")
                 /\ self = SetContext(Unset, allFieldMappings[key])
                 /\ (ret.t = "yaml" =>
                        \A k \in DOMAIN allFieldMappings[key].topLevelParams :
                            /\ k \in DOMAIN ret.doc.detect
                            /\ ret.doc.detect[k] = allFieldMappings[key].topLevelParams[k])
            ELSE ret = Raise("UnsupportedLogSource") /\ NoDocument

\* A rule that declares a service has been translated with the context of its
\* product alone.
C4_Witness ==
    /\ pc = "done"
    /\ rule.logsource = [product |-> "windows", service |-> "sysmon"]
    /\ ret.t = "yaml"
    /\ self = SetContext(Unset, allFieldMappings["windows//"])

---------------------------------------------------------------------------
(* Properties of the node translator                                       *)

\* The translations of the children of an And or Or node, under the context the
\* call selected.
ChildResults(node) == [i \in 1..Len(node.items) |-> generateNode(self, node.items[i])]

\* C6 as stated: translating And([c]) or Or([c]) gives what translating c gives.
C6_Original ==
    (pc = "done" /\ root # NotRun /\ rule.parsedSearch.k \in {"AND", "OR"}
        /\ Len(rule.parsedSearch.items) = 1)
    => root = generateNode(self, rule.parsedSearch.items[1])

\* C6 amended: translating And([c]) gives what translating c gives, and so does
\* translating Or([c]) unless c translates to a raw string; then Or([c]) is the
\* keyword fallback: a failure, or a match node on the keyword field.
C6_Collapse ==
    (pc = "done" /\ root # NotRun /\ rule.parsedSearch.k \in {"AND", "OR"}
        /\ Len(rule.parsedSearch.items) = 1)
    => LET direct == generateNode(self, rule.parsedSearch.items[1])
       IN  IF rule.parsedSearch.k = "OR" /\ IsStr(direct)
           THEN IsRaise(root) \/ (IsDict(root) /\ DOMAIN root = {"t", "op", "path", "value"})
           ELSE root = direct

\* A single-child And over a negation has been translated to the negated node.
C6_Witness ==
    /\ pc = "done"
    /\ rule.parsedSearch.k = "AND"
    /\ Len(rule.parsedSearch.items) = 1
    /\ rule.parsedSearch.items[1].k = "NOT"
    /\ IsDict(root)
    /\ "not" \in DOMAIN root

\* The Or node at the root degrades to a keyword list: its children all
\* translate, and the first one that survives is a raw string.
KeywordCase ==
    /\ pc = "done"
    /\ root # NotRun
    /\ rule.parsedSearch.k = "OR"
    /\ IsNone(FirstRaise(ChildResults(rule.parsedSearch)))
    /\ NotNone(ChildResults(rule.parsedSearch)) # <<>>
    /\ IsStr(NotNone(ChildResults(rule.parsedSearch))[1])

FooBar == OR(<<VAL(PyStr(<<"f", "o", "o", "*">>)), VAL(PyStr(<<"*", "b", "a", "r">>))>>)

\* C8: an Or whose first surviving child is a raw string fails with
\* UnsupportedKeywordSearch when keywords are not supported; with keywords supported
\* and a keyword path K, every surviving child becomes {op, path: K, value} as the
\* value pattern compiler gives them, and Or("foo*", "*bar") yields the or of
\* {starts with, K, "foo"} and {ends with, K, "bar"}.
C8_KeywordFallback ==
    KeywordCase =>
        LET surviving == NotNone(ChildResults(rule.parsedSearch))
            fm == self.fieldMappingInEffect
        IN  IF ~self.isKeywordsSupported
            THEN root = Raise("UnsupportedKeywordSearch")
            ELSE (fm.kind = "dict" /\ "keywords" \in DOMAIN fm.map) =>
                    LET K == fm.map["keywords"].p
                        rules == IF Len(surviving) = 1 THEN <<root>> ELSE root.rules
                    IN  /\ IsDict(root)
                        /\ (Len(surviving) > 1 => DOMAIN root = {"t", "op", "rules"}
                                                  /\ root.op = "or")
                        /\ Len(rules) = Len(surviving)
                        /\ \A i \in 1..Len(rules) :
                              LET c == valuePatternToLcOp(self.isAllStringValues, surviving[i])
                              IN  rules[i] = [t |-> "dict", op |-> c.op, path |-> K,
                                              value |-> c.val]
                        /\ (rule.parsedSearch = FooBar =>
                               root = [t |-> "dict", op |-> "or", rules |->
                                   << [t |-> "dict", op |-> "starts with", path |-> K,
                                       value |-> PyStr(<<"f", "o", "o">>)],
                                      [t |-> "dict", op |-> "ends with", path |-> K,
                                       value |-> PyStr(<<"b", "a", "r">>)] >>])

\* Or("foo*", "*bar") has been translated under a context that supports keywords.
C8_Witness ==
    /\ KeywordCase
    /\ rule.parsedSearch = FooBar
    /\ self.isKeywordsSupported
    /\ IsDict(root)
    /\ root.rules[1].path = "event/COMMAND_LINE"

\* Or("foo*", "*bar") has failed under a context that does not support keywords.
C8_WitnessUnsupported ==
    /\ KeywordCase
    /\ rule.parsedSearch = FooBar
    /\ ~self.isKeywordsSupported
    /\ root = Raise("UnsupportedKeywordSearch")

\* C10: every context of the table that supports keywords defines a keyword path,
\* so the keyword fallback of an Or node produces match nodes or fails with
\* UnsupportedKeywordSearch, and with nothing else.
C10_KeywordPathDefined ==
    KeywordCase =>
        /\ (self.isKeywordsSupported =>
                /\ self.fieldMappingInEffect.kind = "dict"
                /\ "keywords" \in DOMAIN self.fieldMappingInEffect.map)
        /\ (IsDict(root) \/ root = Raise("UnsupportedKeywordSearch"))

---------------------------------------------------------------------------
(* Boolean semantics.  An event is the set of the atoms it satisfies; an   *)
(* atom is a match {op, path, value} or the existence of a path.           *)

Atom(n) ==
    IF n.op = "exists" THEN [op |-> "exists", path |-> n.path]
    ELSE [op |-> n.op, path |-> n.path, value |-> n.value]

RECURSIVE AtomsOf(_)
AtomsOf(n) ==
    IF "rules" \in DOMAIN n THEN UNION { AtomsOf(n.rules[i]) : i \in 1..Len(n.rules) }
    ELSE {Atom(n)}

\* A structured node on an event; not:true negates the node.
RECURSIVE NodeEval(_, _)
NodeEval(n, ev) ==
    LET plain == IF "rules" \in DOMAIN n
                 THEN IF n.op = "and"
                      THEN \A i \in 1..Len(n.rules) : NodeEval(n.rules[i], ev)
                      ELSE \E i \in 1..Len(n.rules) : NodeEval(n.rules[i], ev)
                 ELSE Atom(n) \in ev
    IN  IF "not" \in DOMAIN n /\ n["not"] THEN ~plain ELSE plain

\* The leaves are map items whose field has a target path.
RECURSIVE OverMappedItems(_)
OverMappedItems(tr) ==
    CASE tr.k \in {"AND", "OR"} -> \A i \in 1..Len(tr.items) : OverMappedItems(tr.items[i])
      [] tr.k = "NOT" -> OverMappedItems(tr.item)
      [] tr.k = "SUB" -> OverMappedItems(tr.items)
      [] tr.k = "MAP" -> ResolveField(self, tr.field).t = "path"
      [] tr.k = "VAL" -> FALSE

\* The source tree on an event: a map item holds when the event satisfies the match
\* of its value (one of them, for a list), or lacks the path when the value is absent.
RECURSIVE SourceEval(_, _)
SourceEval(tr, ev) ==
    CASE tr.k = "AND" -> \A i \in 1..Len(tr.items) : SourceEval(tr.items[i], ev)
      [] tr.k = "OR" -> \E i \in 1..Len(tr.items) : SourceEval(tr.items[i], ev)
      [] tr.k = "NOT" -> ~SourceEval(tr.item, ev)
      [] tr.k = "SUB" -> SourceEval(tr.items, ev)
      [] tr.k = "MAP" ->
            LET path == ResolveField(self, tr.field).p
                match(v) == LET c == valuePatternToLcOp(self.isAllStringValues, v)
                            IN  [op |-> c.op, path |-> path, value |-> c.val]
            IN  IF IsNone(tr.value) THEN [op |-> "exists", path |-> path] \notin ev
                ELSE IF tr.value.t = "list"
                THEN \E i \in 1..Len(tr.value.items) : match(tr.value.items[i]) \in ev
                ELSE match(tr.value) \in ev

\* C1: the node generateNode returns for a tree of And, Or and Not over map items
\* with a target path has, on every event, the truth value of the tree.
C1_SemanticsPreserved ==
    (pc = "done" /\ root # NotRun /\ OverMappedItems(rule.parsedSearch) /\ IsDict(root))
    => \A ev \in SUBSET AtomsOf(root) : NodeEval(root, ev) = SourceEval(rule.parsedSearch, ev)

\* A structured document node: a dictionary whose rules, if it has any, are a
\* non-empty list of structured nodes.
RECURSIVE Structured(_)
Structured(n) ==
    /\ IsDict(n)
    /\ ("rules" \in DOMAIN n =>
            /\ Len(n.rules) >= 1
            /\ \A i \in 1..Len(n.rules) : Structured(n.rules[i]))

\* C2: in every detect document produced, every combinator, the precondition
\* wrapper included, has a non-empty rules list of structured nodes.
C2_CombinatorsWellFormed ==
    (pc = "done" /\ ret.t = "yaml") => Structured(ret.doc.detect)

\* C5: a translated root that is not a structured node (None or a raw value) makes
\* the call fail with MalformedSelection, whatever the context.
C5_MalformedSelection ==
    (pc = "done" /\ root # NotRun /\ ~IsRaise(root) /\ ~IsDict(root))
    => ret = Raise("MalformedSelection")

\* The metadata keys the rule holds with a value.
Present(r) == { k \in DOMAIN r.meta : ~IsNone(r.meta[k]) }

\* items lists its keys in the relative order of order.
InOrder(items, order) ==
    \A i, j \in 1..Len(items) :
        i < j => \E a, b \in 1..Len(order) :
                    a < b /\ order[a] = items[i].key /\ order[b] = items[j].key

\* C9: the report action carries metadata exactly when the rule holds one of the
\* five attributes; the metadata holds exactly the present attributes, verbatim,
\* in the order tags, description, references, level, author.
C9_Metadata ==
    (pc = "done" /\ ret.t = "yaml") =>
        LET action == ret.doc.respond[1]
        IN  /\ Len(ret.doc.respond) = 1
            /\ action.action = "report"
            /\ ("metadata" \in DOMAIN action <=> Present(rule) # {})
            /\ ("metadata" \in DOMAIN action =>
                    /\ { action.metadata[i].key : i \in 1..Len(action.metadata) } = Present(rule)
                    /\ Len(action.metadata) = Cardinality(Present(rule))
                    /\ \A i \in 1..Len(action.metadata) :
                          action.metadata[i].value = rule.meta[action.metadata[i].key]
                    /\ InOrder(action.metadata,
                               <<"tags", "description", "references", "level", "author">>))

---------------------------------------------------------------------------
(* Two calls of generate on the same instance, interleaved.  A call is     *)
(*   [rule, pc, config (the locals of line 184), resolvedWith (the field   *)
(*    mapping the walk read), result (line 256), wrappedWith (the          *)
(*    precondition line 257 read), text (line 265), ret]                   *)

ThreadTrees == { MAP("Image", PyStr(<<"c", "m", "d", ".", "e", "x", "e">>)), FooBar }

ThreadRules == { Rule(ls, tr, NoMeta) : ls \in Dialects, tr \in ThreadTrees }

NoConfig == SigmaLCConfig(<<>>, None, [kind |-> "unset"], FALSE, FALSE)

NewCall(r) ==
    [rule |-> r, pc |-> "lookup", config |-> NoConfig,
     resolvedWith |-> [kind |-> "unset"], result |-> NotRun,
     wrappedWith |-> NotRun, text |-> NotRun, ret |-> NotRun]

InitThreads ==
    /\ self = Unset
    /\ pc = "idle"
    /\ rule = NoRule
    /\ root = NotRun
    /\ ret = None
    /\ val = None
    /\ res = None
    /\ \E r1, r2 \in ThreadRules :
          /\ mappingKey(r1.logsource) # mappingKey(r2.logsource)
          /\ calls = <<NewCall(r1), NewCall(r2)>>

Others == <<pc, rule, root, ret, val, res>>

\* Lines 161-186.
Lookup(i) ==
    /\ calls[i].pc = "lookup"
    /\ LET key == mappingKey(calls[i].rule.logsource)
       IN  calls' = IF key \in DOMAIN allFieldMappings
                    THEN [calls EXCEPT ![i].config = allFieldMappings[key],
                                       ![i].pc = "set_mapping"]
                    ELSE [calls EXCEPT ![i].ret = Raise("UnsupportedLogSource"),
                                       ![i].pc = "done"]
    /\ UNCHANGED <<self, Others>>

\* Line 189.
SetFieldMapping(i) ==
    /\ calls[i].pc = "set_mapping"
    /\ self' = [self EXCEPT !.fieldMappingInEffect = calls[i].config.fieldMappings]
    /\ calls' = [calls EXCEPT ![i].pc = "set_precondition"]
    /\ UNCHANGED Others

\* Line 192.
SetPreCondition(i) ==
    /\ calls[i].pc = "set_precondition"
    /\ self' = [self EXCEPT !.preCondition = calls[i].config.preConditions]
    /\ calls' = [calls EXCEPT ![i].pc = "set_strings"]
    /\ UNCHANGED Others

\* Line 195.
SetAllStringValues(i) ==
    /\ calls[i].pc = "set_strings"
    /\ self' = [self EXCEPT !.isAllStringValues = calls[i].config.isAllStringValues]
    /\ calls' = [calls EXCEPT ![i].pc = "set_keywords"]
    /\ UNCHANGED Others

\* Line 198.
SetKeywordsSupported(i) ==
    /\ calls[i].pc = "set_keywords"
    /\ self' = [self EXCEPT !.isKeywordsSupported = calls[i].config.isKeywordsSupported]
    /\ calls' = [calls EXCEPT ![i].pc = "translate"]
    /\ UNCHANGED Others

\* Line 256: the walk, reading the instance fields as they are now.
TranslateRoot(i) ==
    /\ calls[i].pc = "translate"
    /\ LET result == generateNode(self, calls[i].rule.parsedSearch)
       IN  calls' = [calls EXCEPT ![i].result = result,
                                  ![i].resolvedWith = self.fieldMappingInEffect,
                                  ![i].ret = IF IsRaise(result) THEN result ELSE @,
                                  ![i].pc = IF IsRaise(result) THEN "done" ELSE "wrap"]
    /\ UNCHANGED <<self, Others>>

\* Lines 257-265.
WrapQuery(i) ==
    /\ calls[i].pc = "wrap"
    /\ calls' = [calls EXCEPT ![i].wrappedWith = self.preCondition,
                              ![i].text = yaml_safe_dump(WrapPreCondition(self, calls[i].result)),
                              ![i].pc = "assemble"]
    /\ UNCHANGED <<self, Others>>

\* Lines 203-249.
AssembleDocument(i) ==
    /\ calls[i].pc = "assemble"
    /\ calls' = [calls EXCEPT ![i].ret = Assemble(calls[i].rule,
                                                  calls[i].config.topLevelParams,
                                                  calls[i].text),
                              ![i].pc = "done"]
    /\ UNCHANGED <<self, Others>>

NextThreads ==
    \E i \in {1, 2} :
        \/ Lookup(i)
        \/ SetFieldMapping(i)
        \/ SetPreCondition(i)
        \/ SetAllStringValues(i)
        \/ SetKeywordsSupported(i)
        \/ TranslateRoot(i)
        \/ WrapQuery(i)
        \/ AssembleDocument(i)

SpecThreads == InitThreads /\ [][NextThreads]_vars

\* The context of a call's own dialect key.
OwnConfig(c) == allFieldMappings[mappingKey(c.rule.logsource)]

\* C3: whatever the interleaving of two calls for different dialects, a call
\* resolves field names and wraps the precondition with the context of its own
\* dialect key, and so returns what it returns when it runs alone.
C3_OwnContextOnly ==
    \A i \in 1..Len(calls) :
        LET c == calls[i]
        IN  /\ (c.result # NotRun /\ c.rule.parsedSearch.k = "MAP"
                    => c.resolvedWith = OwnConfig(c).fieldMappings)
            /\ (c.wrappedWith # NotRun => c.wrappedWith = OwnConfig(c).preConditions)
            /\ (c.pc = "done" => c.ret = generate(Unset, c.rule).ret)

=============================================================================
